---- MODULE Spec2Model ----
(***************************************************************************)
(* CadiBack backbone analyzer (src/cadiback.cpp): the refinement engine    *)
(* of 'main' and its helper functions, run against an abstract sound       *)
(* incremental SAT oracle.  The input formula is represented by 'vars'     *)
(* and by its set of models 'models' (every set of assignments over        *)
(* 1..vars is the model set of some CNF, so all formulas are covered).     *)
(***************************************************************************)
EXTENDS Integers, Sequences, FiniteSets, TLC

VARIABLES
  argv,        \* the command line arguments not yet parsed
  path,        \* the input file argument, "" for <stdin>
  armed,       \* the environment delivers a signal during this run
  sigat,       \* where the signal hit the run, "none" before
  interrupted, \* the globals as the signal found them
  vars,        \* number of variables of the CNF (set by read_dimacs)
  models,      \* the formula: the set of its satisfying assignments
  check, print, no_filter, no_fixed, no_flip, one_by_one, verbosity,
  pc,          \* position in 'main'
  ret,         \* where the running 'solve ()' returns to
  fret,        \* where the running 'try_to_flip_remaining ()' returns to
  res, last, idx, lit, other, assumed, constraint,   \* locals of 'main'
  fidx, fstart, changed,                             \* locals of the flip probe
  sres,        \* value returned by the last 'solve ()'
  candidates, fixed, statistics, started,            \* globals
  times,       \* the time buckets, in stopped intervals charged to each
  prefix,      \* message prefix of the main oracle: 0 is "c ", N is "c #N "
  solver,      \* the main oracle: state, model, pending assumptions/constraint
  checker,     \* the checker oracle
  shadow,      \* with '--check': the globals of the twin run without it
  alloc,       \* live heap objects
  out,         \* 'b' and 's' lines and statistics blocks written to stdout
  err,         \* "none", or the failed assertion / fatal error
  exitcode     \* process exit code, -1 while running

config == <<check, print, no_filter, no_fixed, no_flip, one_by_one, verbosity>>
locals == <<res, last, idx, lit, other, assumed, constraint, fidx, changed>>
globals == <<candidates, fixed, statistics, started, times, prefix, checker,
             shadow, out, err>>
env == <<argv, path, armed, sigat, interrupted>>
vars_all == <<env, vars, models, config, pc, ret, fret, locals, fstart, sres,
              globals, solver, alloc, exitcode>>

----------------------------------------------------------------------------
\* Bounds and program constants.

MaxVars == 2
SmallVars == 1
MaxArgs == 1
INT_MAX == 2147483647
SAT == 10
UNSAT == 20

Verbosities == {-1, 0, 1, INT_MAX}

----------------------------------------------------------------------------
\* Literals, assignments, and the contract of a sound oracle.

Abs(l) == IF l < 0 THEN -l ELSE l

Assignments(n) == [1..n -> BOOLEAN]

\* Truth value of literal l under assignment m.
Holds(m, l) == IF l > 0 THEN m[l] ELSE ~m[-l]

\* 'solver->val (idx) < 0 ? -idx : idx'
Val(m, v) == IF m[v] THEN v ELSE -v

\* Assignment m with the value of variable v flipped.
Flipped(m, v) == [m EXCEPT ![v] = ~@]

\* l is true in every model of the (satisfiable) formula.
IsBackbone(l) == models # {} /\ \A m \in models : Holds(m, l)

NoModel == <<>>

\* Models the oracle may return for 'solve ()' under the pending assumptions
\* and the pending constraint clause (a closed clause ends in 0).
SolveModels(s) ==
  {m \in models :
     /\ \A a \in s.assumptions : Holds(m, a)
     /\ \/ s.constrained = <<>>
        \/ \E i \in 1..Len(s.constrained) :
             s.constrained[i] # 0 /\ Holds(m, s.constrained[i])}

\* Answers a sound oracle may give to 'fixed (l)'.
FixedAnswers(l) ==
  {0} \cup (IF IsBackbone(l) THEN {1} ELSE {})
      \cup (IF IsBackbone(-l) THEN {-1} ELSE {})

\* Answers a sound oracle may give to 'flip (l)' in model m: success only if
\* the flipped assignment is still a model.
FlipAnswers(m, l) ==
  {FALSE} \cup (IF Flipped(m, Abs(l)) \in models THEN {TRUE} ELSE {})

\* 'checker->assume (l); checker->solve ()' of a sound checker that holds a
\* copy of the clauses.
CheckerSolve(c, l) ==
  IF \E m \in c.models : Holds(m, l) THEN SAT ELSE UNSAT

----------------------------------------------------------------------------
\* The globals as one record G, so that each C function is an operator from
\* globals to globals.  A failed assertion or a fatal error sets 'err'; the
\* process has then aborted and every later operation leaves G alone.

Cur == [candidates |-> candidates, fixed |-> fixed, statistics |-> statistics,
        started |-> started, times |-> times, prefix |-> prefix,
        check |-> check, checker |-> checker, out |-> out, err |-> err]

Fail(G, e) == IF G.err = "none" THEN [G EXCEPT !.err = e] ELSE G

start_timer(G, timer) ==
  IF G.err # "none" THEN G
  ELSE IF G.started # "none" THEN Fail(G, "assert: start_timer !started")
  ELSE [G EXCEPT !.started = timer]

\* Variant of stop_timer that forgets to charge the elapsed time.
stop_timer_uncharged(G) ==
  IF G.err # "none" THEN G
  ELSE IF G.started = "none" THEN Fail(G, "assert: stop_timer started")
  ELSE [G EXCEPT !.started = "none"]

\* '*timer += delta': the elapsed interval is charged to the bucket the
\* timer register points to (one unit per stopped interval).
stop_timer(G) ==
  IF G.err # "none" THEN G
  ELSE IF G.started = "none" THEN Fail(G, "assert: stop_timer started")
  ELSE [G EXCEPT !.started = "none", !.times[G.started] = @ + 1]

remaining_candidates(G) ==
  vars - (G.statistics.dropped + G.statistics.backbones)

\* 'solve ()' in four parts.  First: 'start_timer (&solving_time)'.
solve_enter(G) == start_timer(G, "solving")

\* Second, up to the oracle call: 'statistics.calls.total++', the prefix
\* "c #<total> " and 'remaining_candidates ()'.
solve_count(G) ==
  IF G.err # "none" THEN G
  ELSE LET G2 == [G EXCEPT !.statistics.calls.total = @ + 1,
                           !.prefix = G.statistics.calls.total + 1]
       IN IF remaining_candidates(G2) < 0
          THEN Fail(G2, "assert: determined <= vars") ELSE G2

\* Third, after the oracle call returned r: 'calls.sat++' or 'calls.unsat++'.
solve_result(G, r) ==
  IF G.err # "none" THEN G
  ELSE IF r = SAT THEN [G EXCEPT !.statistics.calls.sat = @ + 1]
  ELSE [G EXCEPT !.statistics.calls.unsat = @ + 1]

\* Fourth: 'stop_timer ()' and the charge of the interval to 'first_time',
\* 'sat_time' / 'unsat_time' and the maxima.
solve_leave(G, r) ==
  LET G5 == stop_timer(G) IN
    IF G5.err # "none" THEN G5
    ELSE LET G6 == IF G5.statistics.calls.total = 1
                   THEN [G5 EXCEPT !.times.first = 1] ELSE G5
         IN IF r = SAT
            THEN [G6 EXCEPT !.times.sat = @ + 1, !.times.satmax = 1]
            ELSE [G6 EXCEPT !.times.unsat = @ + 1, !.times.unsatmax = 1]

\* 'solve ()' around an oracle call that returned r.
solve(G, r) == solve_leave(solve_result(solve_count(solve_enter(G)), r), r)

inc_checked(G) ==
  IF G.err # "none" THEN G
  ELSE IF ~G.checker.present THEN Fail(G, "assert: checker")
  ELSE [G EXCEPT !.statistics.checked = @ + 1]

\* The literals of the 'b l' lines (l # 0) in an output, and the literals
\* stored in a fixed[] array.
BLits(o) == {o[i].l : i \in {j \in 1..Len(o) : o[j].k = "b" /\ o[j].l # 0}}
FixedLits(f) == {f[v] : v \in {w \in DOMAIN f : f[w] # 0}}

\* The checker call of 'check_model' / 'check_backbone': assume l, solve, and
\* compare with the expected result.
\* The history flag 'sync' of the checker stays true as long as, at every
\* checker call so far, the 'b' lines written were the literals in fixed[].
checker_call(G, l, want, msg) ==
  IF G.err # "none" THEN G
  ELSE LET tmp == CheckerSolve(G.checker, l)
           G1 == [G EXCEPT !.checker.calls =
                     @ \cup {[assume |-> l, want |-> want, got |-> tmp]},
                           !.checker.sync =
                     @ /\ (print => BLits(G.out) = FixedLits(G.fixed))]
       IN IF tmp # want THEN Fail(G1, msg) ELSE G1

\* Variant of check_model that does not count the check.
check_model_uncounted(G, l) ==
  LET timer == G.started
      G1 == IF timer # "none" THEN stop_timer(G) ELSE G
      G2 == start_timer(G1, "check")
      G4 == checker_call(G2, l, SAT, "fatal: checking claimed model failed")
      G5 == stop_timer(G4)
  IN IF timer # "none" THEN start_timer(G5, timer) ELSE G5

\* Variant of check_model that does not restart the timer it paused.
check_model_drops_timer(G, l) ==
  LET timer == G.started
      G1 == IF timer # "none" THEN stop_timer(G) ELSE G
      G2 == start_timer(G1, "check")
      G3 == inc_checked(G2)
      G4 == checker_call(G3, l, SAT, "fatal: checking claimed model failed")
  IN stop_timer(G4)

\* Variant of check_model that starts the check timer without pausing the
\* running one.
check_model_nested(G, l) ==
  LET G2 == start_timer(G, "check")
      G3 == inc_checked(G2)
      G4 == checker_call(G3, l, SAT, "fatal: checking claimed model failed")
  IN stop_timer(G4)

check_model(G, l) ==
  LET timer == G.started
      G1 == IF timer # "none" THEN stop_timer(G) ELSE G
      G2 == start_timer(G1, "check")
      G3 == inc_checked(G2)
      G4 == checker_call(G3, l, SAT, "fatal: checking claimed model failed")
      G5 == stop_timer(G4)
  IN IF timer # "none" THEN start_timer(G5, timer) ELSE G5

\* Variant of check_backbone that assumes the literal itself.
check_backbone_wrong_sign(G, l) ==
  LET G1 == start_timer(G, "check")
      G2 == inc_checked(G1)
      G3 == checker_call(G2, l, UNSAT, "fatal: checking backbone failed")
  IN stop_timer(G3)

check_backbone(G, l) ==
  LET G1 == start_timer(G, "check")
      G2 == inc_checked(G1)
      G3 == checker_call(G2, -l, UNSAT, "fatal: checking backbone failed")
  IN stop_timer(G3)

\* Variant of drop_candidate that does not count the dropped variable.
drop_candidate_uncounted(G, v) ==
  IF G.err # "none" THEN G
  ELSE LET l == G.candidates[v] IN
    IF l = 0 THEN Fail(G, "assert: lit")
    ELSE IF G.fixed[v] # 0 THEN Fail(G, "assert: !fixed[idx]")
    ELSE IF ~(G.statistics.dropped < vars)
    THEN Fail(G, "assert: dropped < vars")
    ELSE LET G1 == [G EXCEPT !.candidates[v] = 0]
         IN IF G.check THEN check_model(G1, -l) ELSE G1

\* The given variable was proven not to be a backbone variable.
drop_candidate(G, v) ==
  IF G.err # "none" THEN G
  ELSE LET l == G.candidates[v] IN
    IF l = 0 THEN Fail(G, "assert: lit")
    ELSE IF G.fixed[v] # 0 THEN Fail(G, "assert: !fixed[idx]")
    ELSE IF ~(G.statistics.dropped < vars)
    THEN Fail(G, "assert: dropped < vars")
    ELSE LET G1 == [G EXCEPT !.candidates[v] = 0,
                             !.statistics.dropped = @ + 1]
         IN IF G.check THEN check_model(G1, -l) ELSE G1

\* Variant of backbone_variable that leaves candidates[idx] set.
backbone_variable_keeps_candidate(G, v) ==
  IF G.err # "none" \/ G.candidates[v] = 0 THEN G
  ELSE LET l == G.candidates[v]
           G1 == [G EXCEPT !.fixed[v] = l]
           G2 == IF print
                 THEN [G1 EXCEPT !.out = Append(@, [k |-> "b", l |-> l])]
                 ELSE G1
           G3 == IF G2.checker.present THEN check_backbone(G2, l) ELSE G2
       IN IF G3.err # "none" THEN G3
          ELSE IF ~(G3.statistics.backbones < vars)
          THEN Fail(G3, "assert: backbones < vars")
          ELSE [G3 EXCEPT !.statistics.backbones = @ + 1]

\* Variant of backbone_variable that prints the line after the check.
backbone_variable_prints_late(G, v) ==
  IF G.err # "none" \/ G.candidates[v] = 0 THEN G
  ELSE LET l == G.candidates[v]
           G1 == [G EXCEPT !.fixed[v] = l, !.candidates[v] = 0]
           G2 == IF G1.checker.present THEN check_backbone(G1, l) ELSE G1
           G3 == IF print /\ G2.err = "none"
                 THEN [G2 EXCEPT !.out = Append(@, [k |-> "b", l |-> l])]
                 ELSE G2
       IN IF G3.err # "none" THEN G3
          ELSE IF ~(G3.statistics.backbones < vars)
          THEN Fail(G3, "assert: backbones < vars")
          ELSE [G3 EXCEPT !.statistics.backbones = @ + 1]

\* First part of backbone_variable, for a candidate v: store the literal in
\* fixed[], clear the candidate, print and flush the 'b' line.
promote(G, v) ==
  LET l == G.candidates[v]
      G1 == [G EXCEPT !.fixed[v] = l, !.candidates[v] = 0]
  IN IF print THEN [G1 EXCEPT !.out = Append(@, [k |-> "b", l |-> l])] ELSE G1

\* The given variable is a backbone variable with its candidate literal as
\* backbone literal: print, check and count it.  No-op without candidate.
backbone_variable(G, v) ==
  IF G.err # "none" \/ G.candidates[v] = 0 THEN G
  ELSE LET l == G.candidates[v]
           G2 == promote(G, v)
           G3 == IF G2.checker.present THEN check_backbone(G2, l) ELSE G2
       IN IF G3.err # "none" THEN G3
          ELSE IF ~(G3.statistics.backbones < vars)
          THEN Fail(G3, "assert: backbones < vars")
          ELSE [G3 EXCEPT !.statistics.backbones = @ + 1]

\* Variant of fix_candidate with the sign test of the answer inverted.
fix_candidate_inverted(G, v, tmp) ==
  IF G.err # "none" THEN G
  ELSE IF no_fixed THEN Fail(G, "assert: !no_fixed")
  ELSE IF G.candidates[v] = 0 THEN Fail(G, "assert: lit")
  ELSE IF tmp = 0 THEN G
  ELSE LET G1 == IF tmp < 0 THEN backbone_variable(G, v)
                 ELSE drop_candidate(G, v)
       IN IF G1.err # "none" THEN G1
          ELSE [G1 EXCEPT !.statistics.fixed = @ + 1]

\* Variant of fix_candidate that does not count the hit.
fix_candidate_uncounted(G, v, tmp) ==
  IF G.err # "none" THEN G
  ELSE IF no_fixed THEN Fail(G, "assert: !no_fixed")
  ELSE IF G.candidates[v] = 0 THEN Fail(G, "assert: lit")
  ELSE IF tmp = 0 THEN G
  ELSE IF tmp > 0 THEN backbone_variable(G, v)
  ELSE drop_candidate(G, v)

\* Root-level fixed probe on candidate v; tmp is the oracle's answer to
\* 'solver->fixed (lit)'.
fix_candidate(G, v, tmp) ==
  IF G.err # "none" THEN G
  ELSE IF no_fixed THEN Fail(G, "assert: !no_fixed")
  ELSE IF G.candidates[v] = 0 THEN Fail(G, "assert: lit")
  ELSE IF tmp = 0 THEN G
  ELSE LET G1 == IF tmp > 0 THEN backbone_variable(G, v)
                 ELSE drop_candidate(G, v)
       IN IF G1.err # "none" THEN G1
          ELSE [G1 EXCEPT !.statistics.fixed = @ + 1]

\* Variant of filter_candidate with the comparison inverted.
filter_candidate_inverted(G, v, m) ==
  IF G.err # "none" THEN G
  ELSE IF no_filter THEN Fail(G, "assert: !no_filter")
  ELSE LET l == G.candidates[v] IN
    IF l = 0 \/ l # Val(m, v) THEN G
    ELSE drop_candidate([G EXCEPT !.statistics.filtered = @ + 1], v)

\* Drop candidate v if the model m has its candidate literal false.
filter_candidate(G, v, m) ==
  IF G.err # "none" THEN G
  ELSE IF no_filter THEN Fail(G, "assert: !no_filter")
  ELSE LET l == G.candidates[v] IN
    IF l = 0 \/ l = Val(m, v) THEN G
    ELSE drop_candidate([G EXCEPT !.statistics.filtered = @ + 1], v)

RECURSIVE filter_loop(_, _, _)
filter_loop(G, v, m) ==
  IF v > vars THEN G ELSE filter_loop(filter_candidate(G, v, m), v + 1, m)

\* Variant of filter_candidates that leaves out the variable 'start'.
filter_candidates_after_start(G, start, m) ==
  IF no_filter \/ start > vars THEN G ELSE filter_loop(G, start + 1, m)

\* Drop all candidates from 'start' to 'vars' refuted by the current model.
filter_candidates(G, start, m) ==
  IF no_filter \/ start > vars THEN G ELSE filter_loop(G, start, m)

\* Variant of first_refuted that stops at the first candidate whose literal
\* is true in the model.
RECURSIVE first_refuted_agreeing(_, _, _)
first_refuted_agreeing(G, v, m) ==
  IF v > vars THEN v
  ELSE IF G.candidates[v] # 0 /\ G.candidates[v] = Val(m, v) THEN v
  ELSE first_refuted_agreeing(G, v + 1, m)

\* Index of the first candidate from 'start' refuted by model m; vars + 1 if
\* the scan runs past 'vars' (where 'assert (idx <= vars)' fails).
RECURSIVE first_refuted(_, _, _)
first_refuted(G, v, m) ==
  IF v > vars THEN v
  ELSE IF G.candidates[v] # 0 /\ G.candidates[v] = -Val(m, v) THEN v
  ELSE first_refuted(G, v + 1, m)

\* Variant of drop_first_candidate that finds the candidate but keeps it.
drop_first_candidate_kept(G, start, m) ==
  IF G.err # "none" THEN G
  ELSE IF ~(start <= vars) THEN Fail(G, "assert: start <= vars")
  ELSE LET v == first_refuted(G, start, m) IN
    IF v > vars THEN Fail(G, "assert: idx <= vars") ELSE G

\* Drop the first candidate refuted by the current model.
drop_first_candidate(G, start, m) ==
  IF G.err # "none" THEN G
  ELSE IF ~(start <= vars) THEN Fail(G, "assert: start <= vars")
  ELSE LET v == first_refuted(G, start, m) IN
    IF v > vars THEN Fail(G, "assert: idx <= vars")
    ELSE drop_candidate(G, v)

RECURSIVE backbone_loop(_, _)
backbone_loop(G, v) ==
  IF v > vars THEN G ELSE backbone_loop(backbone_variable(G, v), v + 1)

\* Variant of backbone_variables that promotes 'start' only.
backbone_variables_single(G, start) == backbone_variable(G, start)

\* Variant of backbone_variables that starts after 'start'.
backbone_variables_tail(G, start) == backbone_loop(G, start + 1)

\* Force all remaining candidates from 'start' to 'vars' to be backbones.
backbone_variables(G, start) ==
  LET count == Cardinality({v \in start..vars : G.candidates[v] # 0})
      G1 == backbone_loop(G, start)
  IN IF G1.err = "none" /\ count = 0 THEN Fail(G1, "assert: count") ELSE G1

\* The globals as a run without '--check' has them: 'check' unset and no
\* checker object.
NoChecker == [present |-> FALSE, models |-> {}, calls |-> {}, sync |-> TRUE]
Unchecked(G) == [G EXCEPT !.check = FALSE, !.checker = NoChecker]

\* Apply the step T to the globals and write them back (WriteBack); control
\* goes to 'label' unless the process aborted.  A run with '--check' carries
\* along the globals of its twin, the run without '--check' on the same input
\* and with the same answers of the main oracle, which takes the same step.
WriteBack(G) ==
  /\ candidates' = G.candidates
  /\ fixed' = G.fixed
  /\ statistics' = G.statistics
  /\ started' = G.started
  /\ times' = G.times
  /\ prefix' = G.prefix
  /\ checker' = G.checker
  /\ out' = G.out
  /\ err' = G.err

Commit(T(_), label) ==
  LET G == T(Cur) IN
  /\ shadow' = IF check THEN T(shadow) ELSE shadow
  /\ WriteBack(G)
  /\ pc' = IF G.err = "none" THEN label ELSE "abort"

----------------------------------------------------------------------------
\* Initial state: 'main' after option parsing, solver construction and
\* 'read_dimacs', right before the first 'solve ()'.

NoStatistics ==
  [backbones |-> 0, dropped |-> 0, filtered |-> 0, checked |-> 0, fixed |-> 0,
   flipped |-> 0, calls |-> [sat |-> 0, unsat |-> 0, unknown |-> 0, total |-> 0]]

NoTimes == [first |-> 0, sat |-> 0, unsat |-> 0, satmax |-> 0, unsatmax |-> 0,
            unknown |-> 0, solving |-> 0, flip |-> 0, check |-> 0]

Idle == [state |-> "READY", model |-> NoModel, assumptions |-> {},
         constrained |-> <<>>]

\* Models over 1..n of a CNF given as a set of clauses (sets of literals).
ModelsOf(n, cnf) ==
  {m \in Assignments(n) : \A c \in cnf : \E l \in c : Holds(m, l)}

\* The example of the README and further inputs over three and four
\* variables (unit clauses only, one ternary clause, mixed).
Scenarios ==
  {[n |-> 3, cnf |-> {{1, 2}, {1, -2}, {2, -3}, {-2, -3}}],
   [n |-> 3, cnf |-> {{1}, {2}, {3}}],
   [n |-> 3, cnf |-> {{1}}],
   [n |-> 3, cnf |-> {{-1, 2, 3}}],
   [n |-> 4, cnf |-> {{1}, {2}, {4}}],
   [n |-> 4, cnf |-> {{1}, {-2, -3}, {3, 4}}]}

\* Inputs of the signal runs and of the runs that start at the command line.
SignalScenarios ==
  {[n |-> 3, cnf |-> {{1, 2}, {1, -2}, {2, -3}, {-2, -3}}],
   [n |-> 3, cnf |-> {{1}, {2}, {3}}]}

ArgInputs ==
  {[n |-> 0, cnf |-> {}],
   [n |-> 1, cnf |-> {{1}, {-1}}],
   [n |-> 2, cnf |-> {{1, 2}, {1, -2}}]}

\* The arguments of the command line: every option of the usage text, an
\* option it does not list, and a file name.
FileArgs == {"f.cnf"}
DashArgs ==
  {"-h", "--help", "-V", "--version", "-c", "--check", "-l", "--logging",
   "-n", "--no-print", "-q", "--quiet", "-r", "--report", "-s",
   "--statistics", "-v", "--verbose", "--no-filter", "--no-fixed",
   "--no-flip", "--no-inprocessing", "--one-by-one", "--set-phase",
   "--plain", "--unknown"}
Args == DashArgs \cup FileArgs

\* The runs start either right before the first 'solve ()', with the
\* command line parsed and the input read, or at the command line.
\* In the first case the inputs are: every formula over at most MaxVars
\* variables with the default output options (with '--check' beyond SmallVars
\* variables: in the default and the '--plain' configuration); every formula
\* over at most
\* SmallVars variables and the scenarios under every combination of '-n' and
\* the verbosity options; and, with a signal to come, every formula over at
\* most SmallVars variables and two scenarios at every verbosity; all
\* combinations of the algorithmic switches throughout.  In the second case:
\* every command line of at most MaxArgs arguments.
Init ==
  /\ \/ /\ check \in BOOLEAN
        /\ no_filter \in BOOLEAN /\ no_fixed \in BOOLEAN
        /\ no_flip \in BOOLEAN /\ one_by_one \in BOOLEAN
        /\ \/ /\ vars \in 0..MaxVars
              /\ models \in SUBSET Assignments(vars)
              /\ print = TRUE /\ verbosity = 0 /\ armed = FALSE
              /\ check => \/ vars <= SmallVars
                          \/ /\ no_filter = no_fixed /\ no_fixed = no_flip
                             /\ no_flip = one_by_one
           \/ /\ \/ /\ vars \in 0..SmallVars
                    /\ models \in SUBSET Assignments(vars)
                 \/ \E sc \in Scenarios :
                      vars = sc.n /\ models = ModelsOf(sc.n, sc.cnf)
              /\ print \in BOOLEAN /\ verbosity \in Verbosities
              /\ armed = FALSE
           \/ /\ \/ /\ vars \in 0..SmallVars
                    /\ models \in SUBSET Assignments(vars)
                 \/ \E sc \in SignalScenarios :
                      vars = sc.n /\ models = ModelsOf(sc.n, sc.cnf)
              /\ print = TRUE /\ verbosity \in Verbosities
              /\ armed = TRUE
        /\ argv = <<>>
        /\ pc = "solve" /\ ret = "after_first"
        /\ alloc = {"solver", "handler"} \cup (IF check THEN {"checker"} ELSE {})
     \/ /\ argv \in UNION {[1..k -> Args] : k \in 0..MaxArgs}
        /\ vars = 0 /\ models = {}
        /\ check = FALSE /\ print = TRUE /\ verbosity = 0 /\ armed = FALSE
        /\ no_filter = FALSE /\ no_fixed = FALSE
        /\ no_flip = FALSE /\ one_by_one = FALSE
        /\ pc = "args" /\ ret = "none"
        /\ alloc = {}
  /\ path = "" /\ sigat = "none" /\ interrupted = <<>>
  /\ fret = "none"
  /\ res = 0 /\ last = 0 /\ idx = 0 /\ lit = 0 /\ other = 0 /\ assumed = 0
  /\ constraint = <<>> /\ fidx = 0 /\ fstart = 0 /\ changed = 0 /\ sres = 0
  /\ candidates = <<>> /\ fixed = <<>>
  /\ statistics = NoStatistics
  /\ started = "none" /\ times = NoTimes /\ prefix = 0
  /\ solver = Idle
  /\ checker = [present |-> check, models |-> {}, calls |-> {}, sync |-> TRUE]
  /\ out = <<>>
  /\ err = "none"
  /\ exitcode = -1
  /\ shadow = IF check THEN Unchecked(Cur) ELSE <<>>

----------------------------------------------------------------------------
\* The command line and the start of 'main'.

\* The option globals after argument 'arg', from the option globals c.
parse_option(arg, c) ==
  CASE arg \in {"-c", "--check"} -> [c EXCEPT !.check = TRUE]
    [] arg \in {"-l", "--logging"} -> [c EXCEPT !.verbosity = INT_MAX]
    [] arg \in {"-n", "--no-print"} -> [c EXCEPT !.print = FALSE]
    [] arg \in {"-q", "--quiet"} -> [c EXCEPT !.verbosity = -1]
    [] arg \in {"-v", "--verbose"} ->
         [c EXCEPT !.verbosity = IF @ < 0 THEN 1
                                 ELSE IF @ < INT_MAX THEN @ + 1 ELSE @]
    [] arg = "--no-filter" -> [c EXCEPT !.no_filter = TRUE]
    [] arg = "--no-fixed" -> [c EXCEPT !.no_fixed = TRUE]
    [] arg = "--no-flip" -> [c EXCEPT !.no_flip = TRUE]
    [] arg = "--one-by-one" -> [c EXCEPT !.one_by_one = TRUE]
    [] arg = "--plain" ->
         [c EXCEPT !.no_filter = TRUE, !.no_fixed = TRUE, !.no_flip = TRUE,
                   !.one_by_one = TRUE]
    [] OTHER -> c

\* The options that set globals ('-r', '-s', '--no-inprocessing' and
\* '--set-phase' set globals that only steer messages and the oracle).
Recognised ==
  {"-c", "--check", "-l", "--logging", "-n", "--no-print", "-q", "--quiet",
   "-r", "--report", "-s", "--statistics", "-v", "--verbose", "--no-filter",
   "--no-fixed", "--no-flip", "--no-inprocessing", "--one-by-one",
   "--set-phase", "--plain"}

\* What one iteration of the argument loop does with 'arg'.
arg_outcome(arg) ==
  IF arg = "-h" THEN "usage"
  ELSE IF arg \in {"-V", "--version"} THEN "version"
  ELSE IF arg \in Recognised THEN "option"
  ELSE IF arg \in DashArgs THEN "die: invalid option"
  ELSE IF path # "" THEN "die: multiple file arguments"
  ELSE "path"

\* One iteration of 'for (int i = 1; i != argc; i++)'.  'exit (0)' and 'die'
\* end the process with the argument at fault still first in 'argv'.
ParseArg ==
  /\ pc = "args" /\ argv # <<>>
  /\ LET arg == Head(argv)
         what == arg_outcome(arg)
         c == parse_option(arg,
                [check |-> check, print |-> print, no_filter |-> no_filter,
                 no_fixed |-> no_fixed, no_flip |-> no_flip,
                 one_by_one |-> one_by_one, verbosity |-> verbosity])
     IN /\ check' = c.check /\ print' = c.print /\ verbosity' = c.verbosity
        /\ no_filter' = c.no_filter /\ no_fixed' = c.no_fixed
        /\ no_flip' = c.no_flip /\ one_by_one' = c.one_by_one
        /\ path' = IF what = "path" THEN arg ELSE path
        /\ out' = IF what \in {"usage", "version"}
                  THEN Append(out, [k |-> what, l |-> 0]) ELSE out
        /\ IF what \in {"usage", "version"}
           THEN pc' = "exited" /\ exitcode' = 0 /\ argv' = argv
           ELSE IF what \in {"option", "path"}
           THEN pc' = "args" /\ exitcode' = exitcode /\ argv' = Tail(argv)
           ELSE pc' = "died" /\ exitcode' = 1 /\ argv' = argv
  /\ UNCHANGED <<armed, sigat, interrupted, vars, models, ret, fret, locals,
                 fstart, sres, candidates, fixed, statistics, started, times,
                 prefix, checker, shadow, err, solver, alloc>>

\* From the end of the argument loop to the first 'solve ()': the checker
\* and the solver are created, the signal handler is set and the input is
\* read; a read error ends the process by 'die'.
StartUp ==
  /\ pc = "args" /\ argv = <<>>
  /\ alloc' = {"solver", "handler"} \cup (IF check THEN {"checker"} ELSE {})
  /\ checker' = [checker EXCEPT !.present = check]
  /\ \/ /\ pc' = "died" /\ exitcode' = 1
        /\ UNCHANGED <<vars, models, ret, shadow>>
     \/ \E sc \in ArgInputs :
          /\ vars' = sc.n /\ models' = ModelsOf(sc.n, sc.cnf)
          /\ pc' = "solve" /\ ret' = "after_first" /\ exitcode' = exitcode
          /\ shadow' = IF check
                       THEN Unchecked([Cur EXCEPT !.checker.present = TRUE])
                       ELSE shadow
  /\ UNCHANGED <<env, config, fret, locals, fstart, sres, candidates, fixed,
                 statistics, started, times, prefix, out, err, solver>>

----------------------------------------------------------------------------
\* 'solve ()': one call of the main oracle, which consumes the pending
\* assumptions and constraint.

Solve ==
  /\ pc = "solve"
  /\ LET M == SolveModels(solver) IN
       IF M = {}
       THEN /\ solver' = [Idle EXCEPT !.state = "UNSAT"]
            /\ sres' = UNSAT
            /\ Commit(LAMBDA G : solve(G, UNSAT), ret)
       ELSE \E m \in M :
            /\ solver' = [Idle EXCEPT !.state = "SAT", !.model = m]
            /\ sres' = SAT
            /\ Commit(LAMBDA G : solve(G, SAT), ret)
  /\ ret' = "none"
  /\ UNCHANGED <<env, vars, models, config, fret, locals, fstart, alloc, exitcode>>

\* 'try_to_flip_remaining (start)' up to its first round; control continues
\* at 'label' when the probe returns.
CallFlip(T(_), start, label) ==
  IF no_flip
  THEN /\ Commit(T, label)
       /\ UNCHANGED <<fret, fidx, fstart, changed>>
  ELSE /\ Commit(LAMBDA G : start_timer(T(G), "flip"), "flip")
       /\ fret' = label /\ fidx' = start /\ fstart' = start /\ changed' = 1

\* Variant of unsat_output that terminates the (empty) backbone list too.
unsat_output_with_terminator(G) ==
  [G EXCEPT !.out = @ \o <<[k |-> "b", l |-> 0], [k |-> "s", l |-> UNSAT]>>]

\* 's UNSATISFIABLE'
unsat_output(G) == [G EXCEPT !.out = Append(@, [k |-> "s", l |-> UNSAT])]

\* Variant of initial_last that lets the first call of the loop constrain.
initial_last_unsat == UNSAT

\* 'int last = 10;'
initial_last == SAT

\* Variant of copy_checker that copies the formula together with the unit
\* clause of variable 1 being true.
copy_checker_with_unit(G) ==
  IF G.checker.present
  THEN [G EXCEPT !.checker.models = {m \in models : vars >= 1 /\ m[1]}]
  ELSE G

\* Variant of count_flipped that counts the flip as a filtered candidate.
count_flipped_as_filtered(G) == [G EXCEPT !.statistics.filtered = @ + 1]

\* 'statistics.flipped++;' in try_to_flip_remaining
count_flipped(G) == [G EXCEPT !.statistics.flipped = @ + 1]

\* 'if (checker) solver->copy (*checker);'
copy_checker(G) ==
  IF G.checker.present THEN [G EXCEPT !.checker.models = models] ELSE G

\* Variant of init_candidates that makes every candidate the positive
\* literal.
init_candidates_positive(G, m) ==
  [G EXCEPT !.candidates = [v \in 1..vars |-> v],
            !.fixed = [v \in 1..vars |-> 0]]

\* 'candidates[idx] = lit; fixed[idx] = 0;' for all idx, from the model m.
init_candidates(G, m) ==
  [G EXCEPT !.candidates = [v \in 1..vars |-> Val(m, v)],
            !.fixed = [v \in 1..vars |-> 0]]

\* After the first 'solve ()': copy the checker, then either initialise the
\* candidates from the first model and run the flip probe, or report UNSAT.
AfterFirst ==
  /\ pc = "after_first"
  /\ res' = sres
  /\ IF sres = SAT
     THEN /\ alloc' = alloc \cup {"candidates", "fixed"}
                \cup (IF one_by_one THEN {} ELSE {"constraint"})
          /\ last' = initial_last /\ idx' = 1
          /\ CallFlip(LAMBDA G : init_candidates(copy_checker(G), solver.model),
                      1, "loop")
     ELSE /\ Commit(LAMBDA G : unsat_output(copy_checker(G)), "stats")
          /\ UNCHANGED <<alloc, last, idx, fret, fidx, fstart, changed>>
  /\ UNCHANGED <<env, vars, models, config, ret, lit, other, assumed, constraint,
                 sres, solver, exitcode>>

\* One iteration of the inner loop of the flip probe.
FlipStep ==
  /\ pc = "flip" /\ fidx <= vars
  /\ fidx' = fidx + 1
  /\ IF candidates[fidx] = 0
     THEN UNCHANGED <<globals, solver, changed, pc>>
     ELSE \E ok \in FlipAnswers(solver.model, candidates[fidx]) :
          IF ok
          THEN /\ solver' = [solver EXCEPT !.model = Flipped(@, fidx)]
               /\ changed' = changed + 1
               /\ Commit(LAMBDA G : drop_candidate(count_flipped(G), fidx),
                         "flip")
          ELSE UNCHANGED <<globals, solver, changed, pc>>
  /\ UNCHANGED <<env, vars, models, config, ret, fret, res, last, idx, lit, other,
                 assumed, constraint, fstart, sres, alloc, exitcode>>

\* End of a round of the flip probe: 'round++, changed = 0' and the test of
\* 'changed'.
FlipRoundEnd ==
  /\ pc = "flip" /\ fidx > vars
  /\ LET next_changed == 0 IN
       IF next_changed # 0
       THEN /\ fidx' = fstart /\ changed' = next_changed
            /\ UNCHANGED <<globals, pc, fret, fstart>>
       ELSE /\ Commit(stop_timer, fret)
            /\ fret' = "none" /\ fidx' = 0 /\ fstart' = 0 /\ changed' = 0
  /\ UNCHANGED <<env, vars, models, config, ret, res, last, idx, lit, other,
                 assumed, constraint, sres, solver, alloc, exitcode>>

----------------------------------------------------------------------------
\* The driver loop of 'main'.

\* Head of 'for (int idx = 1; idx <= vars; idx++)': leave the loop, skip a
\* decided variable, or load its candidate literal.
LoopHead ==
  /\ pc = "loop"
  /\ IF idx > vars
     THEN pc' = "finish" /\ UNCHANGED <<idx, lit>>
     ELSE IF candidates[idx] = 0
     THEN pc' = "loop" /\ idx' = idx + 1 /\ UNCHANGED lit
     ELSE pc' = "try" /\ lit' = candidates[idx] /\ UNCHANGED idx
  /\ UNCHANGED <<env, vars, models, config, ret, fret, res, last, other, assumed,
                 constraint, fidx, fstart, changed, sres, globals, solver,
                 alloc, exitcode>>

\* Variant of Assume that assumes the complement of the literal it is given.
Assume_complement(s, l) == [s EXCEPT !.assumptions = @ \cup {-l}]

\* Variant of Assume that does not pass the literal to the oracle.
Assume_unrecorded(s, l) == s

\* 'solver->assume (-lit); last = solve ();' up to the call.
Assume(s, l) == [s EXCEPT !.assumptions = @ \cup {l}]

\* Variant of first_other that starts the collection at 'idx' itself.
first_other_same(i) == i

\* 'for (int other = idx + 1; ...': where the collection of the further
\* literals starts.
first_other(i) == i + 1

\* Label TRY_SAME_CANDIDATE_AGAIN: root-level fixed probe on 'idx', then
\* either start collecting the constraint or assume the negated candidate.
TryCandidate ==
  /\ pc = "try"
  /\ \E tmp \in (IF no_fixed THEN {0} ELSE FixedAnswers(lit)) :
       LET probe(G) == IF no_fixed THEN G ELSE fix_candidate(G, idx, tmp) IN
       IF ~no_fixed /\ tmp # 0
       THEN /\ Commit(probe, "loop")
            /\ idx' = idx + 1
            /\ UNCHANGED <<solver, ret, other, assumed, constraint>>
       ELSE IF ~one_by_one /\ last = UNSAT
       THEN /\ Commit(probe, "collect")
            /\ assumed' = 1 /\ constraint' = <<-lit>>
            /\ other' = first_other(idx)
            /\ UNCHANGED <<solver, ret, idx>>
       ELSE /\ Commit(probe, "solve")
            /\ solver' = Assume(solver, -lit)
            /\ ret' = "assumed"
            /\ UNCHANGED <<idx, other, assumed, constraint>>
  /\ UNCHANGED <<env, vars, models, config, fret, res, last, lit, fidx, fstart,
                 changed, sres, alloc, exitcode>>

\* Variant of Constrain that leaves out the last collected literal.
Constrain_short(s, c) == [s EXCEPT !.constrained = SubSeq(c, 1, Len(c) - 1) \o <<0>>]

\* 'for (int i = 0; i != assumed; i++) solver->constrain (constraint[i]);
\*  solver->constrain (0);'
Constrain(s, c) == [s EXCEPT !.constrained = c \o <<0>>]

\* One iteration of the collection loop over 'other', or its end: constrain
\* and solve with two or more literals, else fall through to the assumption.
Collect ==
  /\ pc = "collect"
  /\ IF other <= vars
     THEN /\ other' = other + 1
          /\ IF candidates[other] = 0
             THEN UNCHANGED <<globals, pc, assumed, constraint>>
             ELSE \E tmp \in (IF no_fixed THEN {0}
                              ELSE FixedAnswers(candidates[other])) :
                  IF ~no_fixed /\ tmp # 0
                  THEN /\ Commit(LAMBDA G : fix_candidate(G, other, tmp),
                                 "collect")
                       /\ UNCHANGED <<assumed, constraint>>
                  ELSE IF ~(assumed < vars)
                  THEN /\ Commit(LAMBDA G : Fail(G, "assert: assumed < vars"),
                                 "collect")
                       /\ UNCHANGED <<assumed, constraint>>
                  ELSE /\ constraint' = Append(constraint, -candidates[other])
                       /\ assumed' = assumed + 1
                       /\ UNCHANGED <<globals, pc>>
          /\ UNCHANGED <<solver, ret>>
     ELSE /\ pc' = "solve"
          /\ IF assumed > 1
             THEN solver' = Constrain(solver, constraint) /\ ret' = "constrained"
             ELSE solver' = Assume(solver, -lit) /\ ret' = "assumed"
          /\ UNCHANGED <<globals, other, assumed, constraint>>
  /\ UNCHANGED <<env, vars, models, config, fret, res, last, idx, lit, fidx, fstart,
                 changed, sres, alloc, exitcode>>

\* Variant of constrain_result that leaves 'last' as it was.
constrain_result_kept(old, r) == old

\* 'last = solve ();' after the constrain clause: the new value of 'last'.
constrain_result(old, r) == r

\* After the constrained 'solve ()'.  SAT: drop the first refuted candidate,
\* filter the rest, run the flip probe from 'idx'.  UNSAT: all remaining
\* candidates are backbones and the loop is left.
AfterConstrain ==
  /\ pc = "constrained"
  /\ last' = constrain_result(last, sres)
  /\ IF sres = SAT
     THEN LET refute(G) ==
                LET dropped_idx == first_refuted(G, idx, solver.model)
                    G1 == drop_first_candidate(G, idx, solver.model)
                IN filter_candidates(G1, dropped_idx + 1, solver.model)
          IN CallFlip(refute, idx, "retry")
     ELSE /\ Commit(LAMBDA G : backbone_variables(G, idx), "finish")
          /\ UNCHANGED <<fret, fidx, fstart, changed>>
  /\ UNCHANGED <<env, vars, models, config, ret, res, idx, lit, other, assumed,
                 constraint, sres, solver, alloc, exitcode>>

\* 'lit = candidates[idx]; if (lit) goto TRY_SAME_CANDIDATE_AGAIN; continue;'
Retry ==
  /\ pc = "retry"
  /\ lit' = candidates[idx]
  /\ IF candidates[idx] # 0
     THEN pc' = "try" /\ UNCHANGED idx
     ELSE pc' = "loop" /\ idx' = idx + 1
  /\ UNCHANGED <<env, vars, models, config, ret, fret, res, last, other, assumed,
                 constraint, fidx, fstart, changed, sres, globals, solver,
                 alloc, exitcode>>

\* After the 'solve ()' under the single assumption '-lit'.  SAT: drop 'idx',
\* filter and flip the tail.  UNSAT: 'idx' is a backbone.
AfterAssume ==
  /\ pc = "assumed"
  /\ last' = sres
  /\ IF sres = SAT
     THEN LET refute(G) ==
                LET G1 == drop_candidate(G, idx)
                    G2 == filter_candidates(G1, idx + 1, solver.model)
                IN IF G2.err = "none" /\ G2.candidates[idx] # 0
                   THEN Fail(G2, "assert: !candidates[idx]") ELSE G2
          IN CallFlip(refute, idx + 1, "advance")
     ELSE /\ Commit(LAMBDA G : backbone_variable(G, idx), "advance")
          /\ UNCHANGED <<fret, fidx, fstart, changed>>
  /\ UNCHANGED <<env, vars, models, config, ret, res, idx, lit, other, assumed,
                 constraint, sres, solver, alloc, exitcode>>

\* End of the loop body: 'idx++'.
Advance ==
  /\ pc = "advance"
  /\ pc' = "loop" /\ idx' = idx + 1
  /\ UNCHANGED <<env, vars, models, config, ret, fret, res, last, lit, other,
                 assumed, constraint, fidx, fstart, changed, sres, globals,
                 solver, alloc, exitcode>>

----------------------------------------------------------------------------
\* After the loop: terminator, verdict, final assertions, release of the
\* stores and the count check of the checker.

final_assertions(G) ==
  IF G.err # "none" THEN G
  ELSE IF Cardinality({v \in 1..vars : G.fixed[v] # 0}) # G.statistics.backbones
  THEN Fail(G, "assert: count == statistics.backbones")
  ELSE IF Cardinality({v \in 1..vars : G.fixed[v] = 0}) # G.statistics.dropped
  THEN Fail(G, "assert: count == statistics.dropped")
  ELSE IF G.statistics.backbones + G.statistics.dropped # vars
  THEN Fail(G, "assert: backbones + dropped == vars")
  ELSE G

\* Variant of checked_all with '<=' in the first comparison.
checked_all_le(G) ==
  IF G.err # "none" \/ ~G.checker.present THEN G
  ELSE IF G.statistics.checked <= vars
  THEN Fail(G, "fatal: checked not all variables")
  ELSE IF G.statistics.checked > vars
  THEN Fail(G, "fatal: checked more than all variables")
  ELSE G

\* 'if (checker) { if (statistics.checked < vars) fatal ...; else if (... >
\* vars) fatal ...; delete checker; }'
checked_all(G) ==
  IF G.err # "none" \/ ~G.checker.present THEN G
  ELSE IF G.statistics.checked < vars
  THEN Fail(G, "fatal: checked not all variables")
  ELSE IF G.statistics.checked > vars
  THEN Fail(G, "fatal: checked more than all variables")
  ELSE G

\* Variant of finish_output that prints the verdict before the terminator.
finish_output_verdict_first(G) ==
  LET G1 == [G EXCEPT !.out = Append(@, [k |-> "s", l |-> SAT])]
  IN IF print THEN [G1 EXCEPT !.out = Append(@, [k |-> "b", l |-> 0])] ELSE G1

\* Variant of finish_output that ignores '-n' for the terminator.
finish_output_always_terminator(G) ==
  [G EXCEPT !.out = @ \o <<[k |-> "b", l |-> 0], [k |-> "s", l |-> SAT]>>]

\* 'b 0' (unless '-n') and then 's SATISFIABLE'.
finish_output(G) ==
  LET G1 == IF print THEN [G EXCEPT !.out = Append(@, [k |-> "b", l |-> 0])]
            ELSE G
  IN [G1 EXCEPT !.out = Append(@, [k |-> "s", l |-> SAT])]

Finish ==
  /\ pc = "finish"
  /\ LET G2 == finish_output(Cur)
         G3 == final_assertions(G2)
         G4 == checked_all(G3)
     IN /\ Commit(LAMBDA G : checked_all(final_assertions(finish_output(G))),
                  "stats")
        /\ alloc' = IF G3.err # "none" THEN alloc
                    ELSE IF G4.err # "none"
                    THEN alloc \ {"candidates", "fixed", "constraint"}
                    ELSE alloc \ {"candidates", "fixed", "constraint", "checker"}
  /\ UNCHANGED <<env, vars, models, config, ret, fret, locals, fstart, sres, solver,
                 exitcode>>

\* Variant of print_statistics that never counts an interrupted call.
print_statistics_uncounted(G) ==
  IF G.err # "none" \/ verbosity < 0 THEN G
  ELSE LET timer == G.started
           G0 == [G EXCEPT !.prefix = 0]
           G1 == IF timer # "none" THEN stop_timer(G0) ELSE G0
       IN [G1 EXCEPT !.out = Append(@, [k |-> "stats", l |-> 0])]

\* Variant of print_statistics that counts an interrupted solver call in
\* 'calls.total' as well.
print_statistics_counts_call(G) ==
  IF G.err # "none" \/ verbosity < 0 THEN G
  ELSE LET timer == G.started
           G0 == [G EXCEPT !.prefix = 0]
           G1 == IF timer # "none" THEN stop_timer(G0) ELSE G0
           G2 == IF timer = "solving"
                 THEN [G1 EXCEPT !.statistics.calls.unknown = @ + 1,
                                 !.statistics.calls.total = @ + 1,
                                 !.times.unknown = @ + 1]
                 ELSE G1
       IN [G2 EXCEPT !.out = Append(@, [k |-> "stats", l |-> 0])]

\* 'print_statistics ()': nothing under '-q'; else the prefix of the oracle
\* is reset to "c ", a running timer is stopped (a running solver call counts
\* as unknown and its interval is charged to 'unknown_time' too) and the
\* block is printed.
print_statistics(G) ==
  IF G.err # "none" \/ verbosity < 0 THEN G
  ELSE LET timer == G.started
           G0 == [G EXCEPT !.prefix = 0]
           G1 == IF timer # "none" THEN stop_timer(G0) ELSE G0
           G2 == IF timer = "solving"
                 THEN [G1 EXCEPT !.statistics.calls.unknown = @ + 1,
                                 !.times.unknown = @ + 1]
                 ELSE G1
       IN [G2 EXCEPT !.out = Append(@, [k |-> "stats", l |-> 0])]

\* Variant of main_result that returns the result of the last solver call.
main_result_last == IF last = 0 THEN res ELSE last

\* 'return res;'
main_result == res

\* End of 'main': statistics, reset of the signal handler, deletion of the
\* solver and 'return res'.
Exit ==
  /\ pc = "stats"
  /\ Commit(print_statistics, "exit")
  /\ alloc' = alloc \ {"handler", "solver"}
  /\ exitcode' = main_result
  /\ UNCHANGED <<env, vars, models, config, ret, fret, locals, fstart, sres, solver>>

----------------------------------------------------------------------------
\* Signals.  'CaDiCaL::Signal' calls the handler once and then raises the
\* signal again with the default action, which ends the process.

\* The points at which a signal may hit the run in its current position:
\* before the step that is due, and inside it: in 'solve ()' after the timer
\* was started, while the oracle runs, and after the result was counted; in
\* 'check_backbone' while the checker runs.  G and s are the globals and the
\* main oracle at that point.
Interrupts ==
  {[at |-> "boundary", G |-> Cur, s |-> solver]}
  \cup (IF pc = "solve"
        THEN LET G1 == solve_enter(Cur)
                 G2 == solve_count(G1)
                 M == SolveModels(solver)
             IN {[at |-> "solve: timer started", G |-> G1, s |-> solver],
                 [at |-> "solve: call in flight", G |-> G2, s |-> solver]}
                \cup (IF M = {}
                      THEN {[at |-> "solve: result counted",
                             G |-> solve_result(G2, UNSAT),
                             s |-> [Idle EXCEPT !.state = "UNSAT"]]}
                      ELSE {[at |-> "solve: result counted",
                             G |-> solve_result(G2, SAT),
                             s |-> [Idle EXCEPT !.state = "SAT", !.model = m]]
                              : m \in M})
        ELSE {})
  \cup (IF /\ pc = "flip" /\ fidx <= vars /\ candidates[fidx] # 0
           /\ TRUE \in FlipAnswers(solver.model, candidates[fidx])
        THEN {[at |-> "flip: flipped counted",
               G |-> count_flipped(Cur),
               s |-> [solver EXCEPT !.model = Flipped(@, fidx)]]}
        ELSE {})
  \cup (IF pc = "assumed" /\ sres = UNSAT /\ checker.present
        THEN {[at |-> "check_backbone: checker call in flight",
               G |-> inc_checked(start_timer(promote(Cur, idx), "check")),
               s |-> solver]}
        ELSE {})

\* 'CadiBackSignalHandler::catch_signal'
catch_signal(G) ==
  IF verbosity < 0 THEN G
  ELSE print_statistics([G EXCEPT !.out = Append(@, [k |-> "caught", l |-> 0])])

\* A signal arrives while the handler is set: the handler runs on the
\* globals as they are at that point, then the process ends.
Signal ==
  /\ armed /\ sigat = "none" /\ "handler" \in alloc
  /\ pc \notin {"exit", "abort", "signalled"}
  /\ \E p \in Interrupts :
       /\ p.G.err = "none"
       /\ WriteBack(catch_signal(p.G))
       /\ solver' = p.s
       /\ sigat' = p.at
       /\ interrupted' = p.G
  /\ pc' = "signalled"
  /\ UNCHANGED <<argv, path, armed, vars, models, config, ret, fret, locals,
                 fstart, sres, shadow, alloc, exitcode>>

Next ==
  \/ ParseArg
  \/ StartUp
  \/ Signal
  \/ Solve
  \/ AfterFirst
  \/ FlipStep
  \/ FlipRoundEnd
  \/ LoopHead
  \/ TryCandidate
  \/ Collect
  \/ AfterConstrain
  \/ Retry
  \/ AfterAssume
  \/ Advance
  \/ Finish
  \/ Exit

Spec == Init /\ [][Next]_vars_all

----------------------------------------------------------------------------
TypeOK ==
  /\ pc \in {"args", "exited", "died", "signalled",
             "solve", "after_first", "flip", "loop", "try", "collect",
             "constrained", "retry", "assumed", "advance", "finish", "stats",
             "exit", "abort"}
  /\ err = "none" <=> pc # "abort"

NoAbort == pc # "abort"

----------------------------------------------------------------------------
\* Vocabulary of the properties.

Lits == {l \in (0 - vars)..vars : l # 0}

\* The backbone of the formula.
Backbones == {l \in Lits : IsBackbone(l)}

\* Positions in 'out' of the 'b l' lines with l # 0, of 'b 0' and of verdicts.
BLitPos == {i \in 1..Len(out) : out[i].k = "b" /\ out[i].l # 0}
BZeroPos == {i \in 1..Len(out) : out[i].k = "b" /\ out[i].l = 0}
VerdictPos == {i \in 1..Len(out) : out[i].k = "s"}

Printed == {out[i].l : i \in BLitPos}

Live == DOMAIN candidates = 1..vars /\ DOMAIN fixed = 1..vars

IsCandidate(v) == candidates[v] # 0
IsBackboneVar(v) == fixed[v] # 0
IsDropped(v) == candidates[v] = 0 /\ fixed[v] = 0

\* A signal ended the run in the middle of a promotion, inside its check.
CheckInterrupted == sigat = "check_backbone: checker call in flight"

----------------------------------------------------------------------------
\* C1: on a satisfiable formula, under every combination of --no-filter,
\* --no-fixed, --no-flip, --one-by-one and --check, a completed run has
\* printed on its 'b l' lines (l # 0) exactly the backbone literals of the
\* formula, each exactly once.
C1_PrintedIsBackbone ==
  (pc = "exit" /\ res = SAT /\ print) =>
     /\ Printed = Backbones
     /\ Cardinality(BLitPos) = Cardinality(Backbones)

\* The README example: backbone {1, -3}, variable 2 is not a backbone.
C1_Witness ==
  /\ pc = "exit" /\ print /\ vars = 3
  /\ Printed = {1, -3} /\ Backbones = {1, -3}

\* C2: when the driver loop is left on a satisfiable input no variable is
\* still a candidate, backbones + dropped = n, the variables with fixed[v] # 0
\* number 'backbones' and those with fixed[v] = 0 number 'dropped'.
C2_PartitionAtLoopExit ==
  pc = "finish" =>
     /\ \A v \in 1..vars : ~IsCandidate(v)
     /\ statistics.backbones + statistics.dropped = vars
     /\ Cardinality({v \in 1..vars : fixed[v] # 0}) = statistics.backbones
     /\ Cardinality({v \in 1..vars : fixed[v] = 0}) = statistics.dropped

\* Loop left by the break after a constrain UNSAT, with a variable dropped
\* before.
C2_Witness ==
  /\ pc = "finish" /\ idx <= vars /\ last = UNSAT
  /\ statistics.dropped >= 1 /\ statistics.backbones >= 2

\* C3: every variable is decided at most once: a zero candidates[v] stays
\* zero, a non-zero fixed[v] never changes, a dropped variable is never
\* promoted, and each count of a promotion or drop consumes one candidate
\* (in every step but the one in which a signal ends the run in the middle
\* of a promotion).
C3_DecidedOnce ==
  [][(Live /\ ~CheckInterrupted') =>
       /\ \A v \in 1..vars :
            /\ ~IsCandidate(v) => candidates'[v] = 0
            /\ IsBackboneVar(v) => fixed'[v] = fixed[v]
            /\ IsDropped(v) => fixed'[v] = 0
       /\ (statistics'.backbones + statistics'.dropped)
            - (statistics.backbones + statistics.dropped)
          = Cardinality({v \in 1..vars : IsCandidate(v) /\ candidates'[v] = 0})
    ]_vars_all

\* The loop is still running with one variable dropped and another promoted.
C3_Witness ==
  /\ pc = "try" /\ Live
  /\ \E v, w \in 1..vars : IsDropped(v) /\ IsBackboneVar(w)

C5_Original ==
  pc = "exit" => (BZeroPos # {} <=> res = SAT)

\* C5 amended: 'b 0' is printed (once) iff the first solver call found a
\* model and printing is not suppressed by '-n'.
C5_TerminatorIffSatAndPrint ==
  pc = "exit" =>
     /\ BZeroPos # {} <=> (res = SAT /\ print)
     /\ Cardinality(BZeroPos) <= 1

\* A satisfiable run under '-n': no terminator.
C5_Witness ==
  pc = "exit" /\ res = SAT /\ ~print /\ BZeroPos = {} /\ vars >= 1

\* C6: the exit code of a completed run is the result of the first solver
\* call (with a sound oracle: 10 iff the formula has a model, else 20),
\* whatever the later calls returned.
C6_ExitCodeIsFirstResult ==
  pc = "exit" => exitcode = (IF models # {} THEN SAT ELSE UNSAT)

\* Exit code 10 although the last solver call returned UNSAT.
C6_Witness ==
  pc = "exit" /\ exitcode = SAT /\ last = UNSAT /\ statistics.calls.unsat >= 1

FirstUnsat == (pc = "after_first" /\ sres = UNSAT) \/ res = UNSAT

\* C7: if the first solver call returns UNSAT the candidate and fixed stores
\* are never initialised, the loop is never entered, exactly one main-solver
\* call is made, no 'b' line is printed and 's UNSATISFIABLE' is printed once.
C7_UnsatStopsAtOnce ==
  FirstUnsat =>
     /\ candidates = <<>> /\ fixed = <<>>
     /\ alloc \cap {"candidates", "fixed", "constraint"} = {}
     /\ pc \in {"after_first", "stats", "exit", "signalled"}
     /\ statistics.calls.total = 1
     /\ BLitPos \cup BZeroPos = {}
     /\ pc \in {"stats", "exit"} =>
          /\ Cardinality(VerdictPos) = 1
          /\ \A i \in VerdictPos : out[i].l = UNSAT

\* A completed run on an unsatisfiable formula with printing on.
C7_Witness ==
  pc = "exit" /\ res = UNSAT /\ exitcode = UNSAT /\ vars >= 2 /\ print /\ check

EmptyFormula == vars = 0 /\ models = {<<>>}

IsBOrS(e) == e.k \in {"b", "s"}

\* C8: for the empty formula, at every verbosity level, in a run that no
\* signal ends: one solver call, no
\* iteration of the flip probe's inner loop or of the driver loop, no 'b l'
\* line, 'b 0' then 's SATISFIABLE', no failed assertion, exit code 10.
C8_EmptyFormula ==
  (EmptyFormula /\ sigat = "none") =>
     /\ err = "none"
     /\ statistics.calls.total = (IF pc = "solve" THEN 0 ELSE 1)
     /\ pc \notin {"try", "collect", "constrained", "retry", "assumed",
                   "advance"}
     /\ pc = "flip" => fidx > vars
     /\ statistics.flipped = 0
     /\ BLitPos = {}
     /\ pc = "exit" =>
          /\ exitcode = SAT
          /\ print => SelectSeq(out, IsBOrS)
                        = <<[k |-> "b", l |-> 0], [k |-> "s", l |-> SAT]>>

\* The empty formula completed under '-l' with checking and the flip probe.
C8_Witness ==
  /\ EmptyFormula /\ pc = "exit" /\ verbosity = INT_MAX
  /\ check /\ ~no_flip /\ print

\* C9: with checking enabled no check ever fails, and every classification
\* is cross-checked with the right literal: a drop of v with candidate l by
\* a checker call assuming -l that returns SAT, a promotion by a checker call
\* assuming -l that returns UNSAT; so the formula with -l has a model in the
\* first case and none in the second (in every step but the one in which a
\* signal ends the run in the middle of a promotion, before its check ended).
C9_CheckerCrossCheck ==
  /\ [](check => err = "none")
  /\ [][(check /\ Live /\ ~CheckInterrupted') =>
          \A v \in 1..vars :
            (IsCandidate(v) /\ candidates'[v] = 0) =>
              LET l == candidates[v]
                  call == [assume |-> -l,
                           want |-> IF fixed'[v] # 0 THEN UNSAT ELSE SAT,
                           got |-> IF fixed'[v] # 0 THEN UNSAT ELSE SAT]
              IN /\ call \in checker'.calls \ checker.calls
                 /\ (fixed'[v] # 0) <=> ~\E m \in models : Holds(m, -l)
      ]_vars_all

\* A checked run with drops (one by the flip probe) and promotions.
C9_Witness ==
  /\ check /\ pc = "exit" /\ statistics.flipped >= 1
  /\ \E c, d \in checker.calls : c.want = SAT /\ d.want = UNSAT

\* C10: with checking enabled 'checked' equals backbones + dropped after
\* every completed drop or promotion, so it equals n at loop exit and
\* neither count-mismatch fatal error is reachable (a signal that ends the
\* run inside the check of a promotion finds the promotion not completed).
C10_CheckedCount ==
  /\ ~CheckInterrupted =>
       statistics.checked =
         (IF check THEN statistics.backbones + statistics.dropped ELSE 0)
  /\ (check /\ pc = "finish") => statistics.checked = vars
  /\ err \notin {"fatal: checked not all variables",
                 "fatal: checked more than all variables"}

\* Loop exit of a checked run over three variables with both outcomes.
C10_Witness ==
  /\ check /\ pc = "finish" /\ vars = 3 /\ statistics.checked = 3
  /\ statistics.backbones >= 1 /\ statistics.dropped >= 1

\* '--plain': filter, fixed, flip and constrain all off; the default
\* configuration has all four on.
Plain == no_filter /\ no_fixed /\ no_flip /\ one_by_one
Default == ~no_filter /\ ~no_fixed /\ ~no_flip /\ ~one_by_one

\* C11: a completed run with '--plain' and a completed run in the default
\* configuration emit the same set of backbone literals for the same
\* formula: in both the emitted set is the backbone of the formula, which
\* depends on the formula alone and not on the oracle's answers.
C11_PlainEqualsDefault ==
  (pc = "exit" /\ res = SAT /\ print /\ (Plain \/ Default)) =>
     {out[i].l : i \in BLitPos} = {l \in Lits : \A m \in models : Holds(m, l)}

\* A default run that decided variables by the fixed probe, the filter and
\* the flip probe, on a formula with a backbone and a non-backbone variable.
C11_Witness ==
  /\ pc = "exit" /\ Default /\ print /\ res = SAT
  /\ statistics.fixed >= 1 /\ statistics.flipped >= 1
  /\ Backbones # {} /\ statistics.dropped >= 1

\* The formula with the three unit clauses (1), (2), (3).
ThreeUnits == vars = 3 /\ models = ModelsOf(3, {{1}, {2}, {3}})

Min(a, b) == IF a < b THEN a ELSE b

\* C17 as stated: on the three unit clauses a run in constrain mode decides
\* all three variables as backbones with exactly one main-solver call after
\* the first.
C17_Original ==
  (ThreeUnits /\ ~one_by_one /\ pc = "exit") =>
     /\ statistics.backbones = 3
     /\ statistics.calls.total = 2

\* C17 amended: on the three unit clauses a run in constrain mode decides
\* all three variables as backbones with at most two main-solver calls after
\* the first: none if the fixed probe answers for all three; else the first
\* call of the loop is a single-assumption call ('last' starts as 10) and one
\* more call (constrained over two candidates, or a second assumption if one
\* candidate is left) decides the rest.  Without fixed hits: exactly two.
C17_ThreeUnitsCalls ==
  (ThreeUnits /\ ~one_by_one) =>
     /\ (pc = "constrained" /\ sres = UNSAT) =>
           statistics.calls.total = 3 /\ Len(constraint) = 2
     /\ pc = "exit" =>
          /\ fixed = <<1, 2, 3>>
          /\ statistics.backbones = 3 /\ statistics.dropped = 0
          /\ statistics.calls.sat = 1
          /\ statistics.calls.total = 1 + Min(3 - statistics.fixed, 2)

\* The three unit clauses decided without a fixed hit: an assumption call
\* for variable 1 and a constrained call for variables 2 and 3.
C17_Witness ==
  /\ ThreeUnits /\ ~one_by_one /\ pc = "exit"
  /\ statistics.fixed = 0 /\ statistics.calls.total = 3
  /\ Len(constraint) = 2

\* The formula (1 OR 2) AND (1 OR NOT 2).
OneThenFree == vars = 2 /\ models = ModelsOf(2, {{1, 2}, {1, -2}})

\* C18 as stated: on (1 OR 2) AND (1 OR NOT 2) a default run promotes
\* variable 1 and drops variable 2 through the filter, which counts it.
C18_Original ==
  (OneThenFree /\ Default /\ pc = "exit") =>
     /\ fixed[1] = 1 /\ fixed[2] = 0
     /\ statistics.filtered = 1

\* C18 amended: on (1 OR 2) AND (1 OR NOT 2) a default run promotes
\* variable 1 (by a fixed hit or by its assumption call returning UNSAT,
\* after which no model is filtered) and drops variable 2 either by the
\* initial flip probe or by its own assumption call returning SAT; the
\* filter never drops it.
C18_OneThenFree ==
  (OneThenFree /\ Default) =>
     /\ statistics.filtered = 0
     /\ (pc = "assumed" /\ idx = 1) => sres = UNSAT
     /\ pc = "exit" =>
          /\ fixed = <<1, 0>>
          /\ statistics.backbones = 1 /\ statistics.dropped = 1
          /\ statistics.fixed + statistics.calls.unsat = 1
          /\ statistics.flipped + statistics.calls.sat = 2

\* Variable 1 promoted by its UNSAT assumption call, variable 2 dropped by
\* the initial flip probe.
C18_Witness ==
  /\ OneThenFree /\ Default /\ pc = "exit"
  /\ statistics.calls.unsat = 1 /\ statistics.flipped = 1
  /\ fixed = <<1, 0>>

\* What the two runs are compared on: everything but the checker, the count
\* of checks and the time buckets.
Unobserved(G) ==
  [Unchecked(G) EXCEPT !.statistics.checked = 0, !.times = NoTimes]

\* C12: checking is transparent.  A run with '--check' and its twin without
\* it, on the same formula and with the same answers of the main oracle, go
\* in lockstep through the same main-oracle calls and agree at every step on
\* candidates, fixed[], the counters (but 'checked'), the timer register,
\* the oracle prefix, the written lines and on not having aborted: the
\* checker calls change only the checker, 'checked' and the time buckets.
C12_CheckIsTransparent ==
  (check /\ pc \notin {"args", "exited", "died", "signalled"}) =>
     Unobserved(Cur) = Unobserved(shadow)

\* A checked run inside the flip probe, after a checked drop, with a
\* backbone and a non-backbone still candidates.
C12_Witness ==
  /\ check /\ Live /\ pc = "flip" /\ started = "flip"
  /\ statistics.checked >= 1 /\ prefix = 1
  /\ shadow.statistics.checked = 0 /\ shadow.statistics.dropped >= 1
  /\ \E v, w \in 1..vars :
        /\ IsCandidate(v) /\ IsBackbone(candidates[v])
        /\ IsCandidate(w) /\ ~IsBackbone(candidates[w])

\* C19: a promotion stores the literal and prints its 'b' line before any
\* further call of the main oracle (solve, flip, fixed) or of the checker:
\* with printing on, at every such call the 'b l' lines written are exactly
\* the literals in fixed[].
C19_PrintedBeforeNextCall ==
  /\ checker.sync
  /\ (print /\ pc \in {"solve", "flip", "try", "collect"}) =>
        Printed = FixedLits(fixed)

\* A main-oracle call is due after a promotion that was printed and checked.
C19_Witness ==
  /\ print /\ check /\ pc = "solve" /\ Printed # {}
  /\ \E c \in checker.calls : c.want = UNSAT /\ -c.assume \in Printed

StatsPrinted == \E i \in 1..Len(out) : out[i].k = "stats"

\* C13: whenever the statistics have been printed, at normal completion or
\* by the signal handler at whatever point the signal hit (also inside
\* 'solve ()' before 'calls.total' is incremented, and after 'calls.sat' or
\* 'calls.unsat' is incremented but before the timer is stopped),
\* calls.total = calls.sat + calls.unsat + calls.unknown.
C13_CounterConsistency ==
  StatsPrinted =>
     statistics.calls.total
       = statistics.calls.sat + statistics.calls.unsat + statistics.calls.unknown

\* A signal hit the run while the main oracle was solving.
InFlight == pc = "signalled" /\ sigat = "solve: call in flight"

\* C14 as stated: after a signal during a main-solver call the statistics
\* are printed and calls.unknown >= 1, at every verbosity level.
C14_Original ==
  InFlight => (StatsPrinted /\ statistics.calls.unknown >= 1)

\* C14 amended: after a signal during a main-solver call, at every verbosity
\* level but quiet the handler has written its line and the statistics, and
\* calls.unknown is one more than before, so at least 1; under '-q' nothing
\* is written and calls.unknown is unchanged (0).
C14_SignalInFlight ==
  InFlight =>
     IF verbosity >= 0
     THEN /\ out = interrupted.out
                    \o <<[k |-> "caught", l |-> 0], [k |-> "stats", l |-> 0]>>
          /\ statistics.calls.unknown = interrupted.statistics.calls.unknown + 1
          /\ statistics.calls.unknown >= 1
     ELSE /\ out = interrupted.out /\ ~StatsPrinted
          /\ statistics.calls.unknown = 0

\* A signal during the second or a later solver call of a logging run.
C14_Witness ==
  /\ InFlight /\ verbosity = INT_MAX /\ StatsPrinted
  /\ statistics.calls.unknown = 1 /\ statistics.calls.total >= 2

\* A signal hit the run while a timer was running.
TimerRunning == pc = "signalled" /\ interrupted.started # "none"

\* C15 as stated: when the statistics are printed while a timer (solving,
\* flip or check) is running, the timer is stopped and its elapsed time is
\* charged to the 'unknown' bucket.
C15_Original ==
  (TimerRunning /\ StatsPrinted) =>
     /\ started = "none"
     /\ times.unknown = interrupted.times.unknown + 1

\* C15 amended: when the statistics are printed while a timer is running,
\* the timer is stopped and its elapsed time is charged to its own bucket;
\* only for the solving timer it is charged to 'unknown' as well and
\* calls.unknown is incremented; the block is written after that.  Under
\* '-q' nothing is printed and the timer keeps running.  At normal
\* completion no timer is running.
C15_TimerCharged ==
  /\ pc = "stats" => started = "none"
  /\ TimerRunning =>
       LET timer == interrupted.started
           unknown == IF timer = "solving" THEN 1 ELSE 0
       IN IF verbosity >= 0
          THEN /\ started = "none"
               /\ times = [interrupted.times EXCEPT ![timer] = @ + 1,
                                                    !.unknown = @ + unknown]
               /\ statistics = [interrupted.statistics EXCEPT
                                  !.calls.unknown = @ + unknown]
               /\ out[Len(out)].k = "stats"
          ELSE /\ started = timer
               /\ times = interrupted.times
               /\ out = interrupted.out

\* A signal inside the flip probe: charged to 'flip', not to 'unknown'.
C15_Witness ==
  /\ TimerRunning /\ interrupted.started = "flip" /\ verbosity = 0
  /\ StatsPrinted /\ started = "none"
  /\ times.flip = interrupted.times.flip + 1 /\ times.unknown = 0

\* The globals without what C16 lets the handler change (and without the
\* lines written).
HandlerFrame(G) ==
  [G EXCEPT !.started = "none", !.times = NoTimes,
            !.statistics.calls.unknown = 0, !.out = <<>>]

\* C16 as stated: the handler changes nothing but the timer register, the
\* time buckets and calls.unknown: not the candidates, fixed[], the other
\* counters, the checker, nor the main oracle.
C16_Original ==
  pc = "signalled" => HandlerFrame(Cur) = HandlerFrame(interrupted)

\* C16 amended: the handler changes nothing but the timer register, the
\* time buckets, calls.unknown and the message prefix of the main oracle,
\* which it resets to "c "; under '-q' it changes nothing at all.
C16_HandlerFrame ==
  pc = "signalled" =>
     /\ [HandlerFrame(Cur) EXCEPT !.prefix = 0]
          = [HandlerFrame(interrupted) EXCEPT !.prefix = 0]
     /\ prefix = (IF verbosity >= 0 THEN 0 ELSE interrupted.prefix)
     /\ verbosity < 0 => Cur = interrupted

\* A signal during a later solver call, with variables decided both ways.
C16_Witness ==
  /\ InFlight /\ verbosity >= 0 /\ interrupted.prefix >= 2 /\ prefix = 0
  /\ statistics.backbones >= 1 /\ statistics.dropped >= 1

\* C20: both '-h' and '--help' print the option summary and exit with code
\* 0, with no solver created and no input read.
C20_HelpOptions ==
  (pc # "args" /\ argv # <<>> /\ Head(argv) \in {"-h", "--help"}) =>
     /\ pc = "exited" /\ exitcode = 0
     /\ out = <<[k |-> "usage", l |-> 0]>>
     /\ "solver" \notin alloc /\ vars = 0 /\ statistics.calls.total = 0

\* C21: the flip probe returns only after a complete round without a
\* successful flip: after a round with at least one successful flip
\* ('changed' is 1 plus the number of flips of the round) another round over
\* [start..n] is run.
C21_FlipUntilNoChange ==
  [][(pc = "flip" /\ fidx > vars /\ changed > 1 /\ sigat' = "none")
       => (pc' = "flip" /\ fidx' = fstart)]_vars_all

\* C22: after initialisation, at every point between two operations of the
\* driver, no variable is both a candidate and fixed, the variables with
\* fixed[v] # 0 are counted by statistics.backbones, those with both entries
\* zero by statistics.dropped, and remaining_candidates () is the number of
\* variables with candidates[v] # 0.
C22_ThreeWayPartition ==
  (Live /\ ~CheckInterrupted) =>
     /\ \A v \in 1..vars : ~(IsCandidate(v) /\ IsBackboneVar(v))
     /\ Cardinality({v \in 1..vars : IsBackboneVar(v)}) = statistics.backbones
     /\ Cardinality({v \in 1..vars : IsDropped(v)}) = statistics.dropped
     /\ remaining_candidates(Cur)
          = Cardinality({v \in 1..vars : IsCandidate(v)})

\* In the middle of the loop: one variable of each kind.
C22_Witness ==
  /\ Live /\ pc = "try" /\ sigat = "none"
  /\ \E v \in 1..vars : IsCandidate(v)
  /\ statistics.backbones >= 1 /\ statistics.dropped >= 1
  /\ \E v \in 1..vars : IsBackboneVar(v)
  /\ \E v \in 1..vars : IsDropped(v)

\* The number of remaining candidates.
Remaining == remaining_candidates(Cur)

\* Variant of the run: the phase of 'main' (command line, first call, its
\* evaluation, driver loop, epilogue) and within the phase a number: the
\* arguments left; in the loop the remaining candidates, then the distance
\* of 'idx' from the end, then the position in the loop body, then the
\* distance of the inner loop variable from its end.
Phase ==
  CASE pc = "args" -> 4
    [] pc = "solve" /\ ret = "after_first" -> 3
    [] pc = "after_first" -> 2
    [] pc \in {"flip", "advance", "retry", "loop", "try", "collect", "solve",
               "assumed", "constrained"} -> 1
    [] OTHER -> 0

Position ==
  CASE pc = "flip" -> 7
    [] pc \in {"advance", "retry"} -> 6
    [] pc = "loop" -> 5
    [] pc = "try" -> 4
    [] pc = "collect" -> 3
    [] pc = "solve" -> 2
    [] OTHER -> 1

Variant ==
  CASE Phase = 4 -> Len(argv)
    [] Phase = 1 ->
         LET W == vars + 2
             inner == IF pc = "flip" THEN W - fidx
                      ELSE IF pc = "collect" THEN W - other ELSE 0
         IN inner + W * (Position + 8 * ((W - idx) + W * Remaining))
    [] pc = "finish" -> 2
    [] pc = "stats" -> 1
    [] OTHER -> 0

\* What holds of the calls and of the progress of the run in every state.
CallsBounded ==
  /\ statistics.calls.total <= vars + 1
  /\ (pc = "solve" /\ ret # "after_first") =>
        (Remaining >= 1 /\ statistics.calls.total + Remaining <= vars + 1)
  /\ Variant >= 0
  /\ pc # "abort"
  /\ (pc \in {"stats", "exit"}) => VerdictPos # {}

\* C23: every call of the main solver after the first decreases the number
\* of remaining candidates (an assumption call decides its variable, a
\* constrain SAT drops at least one candidate, a constrain UNSAT promotes at
\* least two and leaves none), the number never grows, at every call after
\* the first a candidate remains and calls.total + remaining <= n + 1, so
\* calls.total <= n + 1 in every configuration; and the run reaches its
\* verdict: every step decreases the variant (so no loop runs forever), no
\* assertion fails, and a run that came to the statistics has printed a
\* verdict.
C23_CallsDecreaseCandidates ==
  [][/\ CallsBounded /\ CallsBounded'
     /\ (Live /\ Live' /\ sigat' = "none" /\ pc' # "abort") =>
          /\ Remaining' <= Remaining
          /\ pc = "assumed" => (Remaining' < Remaining /\ candidates'[idx] = 0)
          /\ pc = "constrained" =>
               IF sres = SAT THEN Remaining' < Remaining
               ELSE Remaining' = 0 /\ Remaining >= 2
     /\ Phase' < Phase \/ (Phase' = Phase /\ Variant' < Variant)]_vars_all

\* A completed run that needed a call for every variable.
C23_Witness ==
  /\ pc = "exit" /\ vars >= 2 /\ statistics.calls.total = vars + 1
  /\ statistics.calls.sat >= 2 /\ statistics.calls.unsat >= 1

\* The variables of the literals pushed into the constraint clause.
Pushed == {Abs(constraint[i]) : i \in 1..Len(constraint)}

\* C24: when a constrain call returns UNSAT, backbone_variables (idx)
\* promotes exactly the variables whose negated candidate literal was pushed
\* into the clause, each with the complement of the pushed literal; they
\* number 'assumed', which is at least 2; the loop is left, and no call of
\* the main solver is made afterwards.
C24_ConstrainUnsatPromotesPushed ==
  [][/\ (pc = "constrained" /\ sres = UNSAT /\ sigat' = "none") =>
          LET promoted == {v \in 1..vars : fixed[v] = 0 /\ fixed'[v] # 0} IN
          /\ promoted = Pushed
          /\ \A i \in 1..Len(constraint) :
               fixed'[Abs(constraint[i])] = -constraint[i]
          /\ Cardinality(promoted) = assumed /\ Len(constraint) = assumed
          /\ assumed >= 2
          /\ pc' = "finish"
     /\ (pc \in {"finish", "stats"}) =>
          (pc' # "solve" /\ statistics'.calls.total = statistics.calls.total)
    ]_vars_all

\* The loop was left by the 'break' after a constrain UNSAT: 'idx' is still
\* in range and the pushed variables are fixed.
C24_Witness ==
  /\ pc = "finish" /\ idx <= vars /\ last = UNSAT /\ assumed >= 2
  /\ \A v \in Pushed : fixed[v] # 0
  /\ statistics.backbones >= 2

\* C25: after every constrain call that returns SAT some variable in
\* [idx..n] is still a candidate with its candidate literal false in the
\* returned model; drop_first_candidate (idx) stays within 1..n, drops the
\* first such variable (counting it in 'dropped') and changes the state of no
\* other variable.
C25_GuaranteedDrop ==
  (pc = "constrained" /\ sres = SAT) =>
     LET m == solver.model
         v == first_refuted(Cur, idx, m)
         G1 == drop_first_candidate(Cur, idx, m)
     IN /\ v \in idx..vars
        /\ candidates[v] # 0 /\ ~Holds(m, candidates[v])
        /\ \A w \in idx..(v - 1) :
             candidates[w] = 0 \/ Holds(m, candidates[w])
        /\ G1.err = "none"
        /\ G1.candidates = [candidates EXCEPT ![v] = 0]
        /\ G1.fixed = fixed
        /\ G1.statistics.dropped = statistics.dropped + 1
        /\ G1.statistics.backbones = statistics.backbones
        /\ G1.statistics.filtered = statistics.filtered
        /\ G1.out = out

\* The model keeps the candidate literal of 'idx' and refutes a later one.
C25_Witness ==
  /\ pc = "constrained" /\ sres = SAT
  /\ Holds(solver.model, candidates[idx])
  /\ first_refuted(Cur, idx, solver.model) \in (idx + 1)..vars

\* C26: at every decision whether to take the constrain branch (label
\* TRY_SAME_CANDIDATE_AGAIN and the collection that follows it) 'last' is the
\* result of the most recent call of the main solver, the first included; a
\* constraint clause is passed to the solver only in constrain mode, after a
\* call that returned UNSAT and with at least two literals collected; with
\* fewer than two the variable is decided under the single assumption of its
\* negated candidate literal.
C26_LastIsLastResult ==
  /\ (pc \in {"try", "collect"}) => (last = sres /\ last \in {SAT, UNSAT})
  /\ (pc = "solve" /\ ret = "constrained") =>
        /\ ~one_by_one /\ last = UNSAT
        /\ assumed >= 2 /\ Len(constraint) = assumed
        /\ solver.constrained = constraint \o <<0>>
        /\ solver.assumptions = {}
  /\ (pc = "solve" /\ ret = "assumed") =>
        /\ solver.assumptions = {-lit} /\ solver.constrained = <<>>
        /\ (~one_by_one /\ last = UNSAT) =>
              (assumed = 1 /\ constraint = <<-lit>>)

\* In constrain mode after an UNSAT call, with a single candidate left: the
\* fall through to the assumption.
C26_Witness ==
  /\ pc = "solve" /\ ret = "assumed" /\ ~one_by_one /\ last = UNSAT
  /\ assumed = 1 /\ solver.assumptions = {-lit}

\* What fix_candidate (v) does to the globals for each answer tmp of
\* 'solver->fixed (lit)'; with '--check' only for the answers a sound oracle
\* can give, as the checker refutes the others.
FixedProbe(v) ==
  \A tmp \in {-1, 0, 1} :
    LET l == candidates[v]
        G1 == fix_candidate(Cur, v, tmp)
        checks == IF check THEN 1 ELSE 0
        rest == \A w \in (1..vars) \ {v} :
                  G1.candidates[w] = candidates[w] /\ G1.fixed[w] = fixed[w]
    IN (tmp \in FixedAnswers(l) \/ ~check) =>
         CASE tmp > 0 ->
                /\ G1.err = "none" /\ rest
                /\ G1.candidates[v] = 0 /\ G1.fixed[v] = l
                /\ G1.statistics = [statistics EXCEPT !.backbones = @ + 1,
                                                      !.fixed = @ + 1,
                                                      !.checked = @ + checks]
                /\ G1.out = IF print THEN Append(out, [k |-> "b", l |-> l])
                            ELSE out
           [] tmp < 0 ->
                /\ G1.err = "none" /\ rest
                /\ G1.candidates[v] = 0 /\ G1.fixed[v] = 0
                /\ G1.statistics = [statistics EXCEPT !.dropped = @ + 1,
                                                      !.fixed = @ + 1,
                                                      !.checked = @ + checks]
                /\ G1.out = out
           [] OTHER -> G1 = Cur

\* C27: the root-fixed probe fix_candidate (v) on a candidate v with literal
\* l promotes v if fixed (l) > 0 and drops v if fixed (l) < 0, incrementing
\* the fixed-hits counter by one in both cases, and changes nothing if
\* fixed (l) = 0; no solver call is made for a variable it decided: a call
\* under an assumption is made for a variable that is still a candidate, and
\* a constraint holds literals of candidates only.
C27_FixedProbe ==
  /\ (pc = "try" /\ ~no_fixed) => FixedProbe(idx)
  /\ (pc = "collect" /\ ~no_fixed /\ other <= vars /\ candidates[other] # 0)
        => FixedProbe(other)
  /\ (pc = "solve" /\ ret = "assumed") => (lit # 0 /\ candidates[idx] = lit)
  /\ (pc = "solve" /\ ret = "constrained") =>
        \A i \in 1..Len(constraint) :
           candidates[Abs(constraint[i])] = -constraint[i]

\* A run in which every backbone was found by the probe, without a solver
\* call after the first.
C27_Witness ==
  /\ pc = "finish" /\ ~no_fixed /\ statistics.calls.total = 1
  /\ statistics.fixed >= 1 /\ statistics.backbones = statistics.fixed

\* The candidates from 'start' that the model m refutes in the globals G.
Refuted(G, start, m) ==
  {v \in start..vars : G.candidates[v] # 0 /\ G.candidates[v] # Val(m, v)}

\* What filter_candidates (start) does to the globals G0 with the oracle
\* holding the model m.
FilterSweep(G0, start, m) ==
  LET G1 == filter_candidates(G0, start, m)
      swept == {v \in 1..vars : G0.candidates[v] # 0 /\ G1.candidates[v] = 0}
  IN IF no_filter THEN G1 = G0
     ELSE /\ G1.err = "none"
          /\ \A v \in start..vars :
               G1.candidates[v] # 0 =>
                  (G1.candidates[v] = Val(m, v)
                     /\ G1.candidates[v] = G0.candidates[v])
          /\ \A v \in 1..(start - 1) : G1.candidates[v] = G0.candidates[v]
          /\ G1.fixed = G0.fixed
          /\ swept = Refuted(G0, start, m)
          /\ G1.statistics.filtered
               = G0.statistics.filtered + Cardinality(swept)
          /\ G1.statistics.dropped
               = G0.statistics.dropped + Cardinality(swept)
          /\ G1.statistics.backbones = G0.statistics.backbones
          /\ G1.out = G0.out

\* C28: with filtering enabled and the oracle holding a model, after
\* filter_candidates (start) every variable from 'start' that is still a
\* candidate has its candidate literal true in the model, no variable below
\* 'start' has changed, and statistics.filtered has grown by the number of
\* variables the sweep dropped (the candidates from 'start' refuted by the
\* model); with '--no-filter' the call changes nothing.  At both calls in
\* 'main': after a SAT answer under an assumption (start = idx + 1) and
\* after a SAT answer under a constraint (start = other + 1).
C28_FilterSweep ==
  /\ (pc = "assumed" /\ sres = SAT) =>
        FilterSweep(drop_candidate(Cur, idx), idx + 1, solver.model)
  /\ (pc = "constrained" /\ sres = SAT) =>
        FilterSweep(drop_first_candidate(Cur, idx, solver.model),
                    first_refuted(Cur, idx, solver.model) + 1, solver.model)

\* The model under the assumption refutes a further candidate.
C28_Witness ==
  /\ pc = "assumed" /\ sres = SAT /\ ~no_filter
  /\ Refuted(Cur, idx + 1, solver.model) # {}
  /\ \E v \in (idx + 1)..vars : candidates[v] = Val(solver.model, v)

\* C29: at most one timer runs at any time.  In every run without a signal,
\* under every configuration, no 'assert (!started)' of start_timer and no
\* 'assert (started)' of stop_timer fails (no assertion fails at all); the
\* timer register holds the flip timer inside the flip probe and nothing at
\* every other position of 'main'; and a check inside the flip probe pauses
\* the flip timer, which closes a flip interval, runs the check timer for one
\* interval, and leaves the flip timer running again.
C29_OneTimer ==
  /\ err = "none"
  /\ sigat = "none" => started = (IF pc = "flip" THEN "flip" ELSE "none")
  /\ (pc = "flip" /\ fidx <= vars /\ candidates[fidx] # 0
        /\ TRUE \in FlipAnswers(solver.model, candidates[fidx])) =>
        LET G1 == drop_candidate(Cur, fidx) IN
        /\ G1.err = "none" /\ G1.started = "flip"
        /\ G1.times = IF check
                      THEN [times EXCEPT !.flip = @ + 1, !.check = @ + 1]
                      ELSE times

\* Inside the flip probe after a flip that was checked: the flip timer runs,
\* a flip interval and a check interval have been charged.
C29_Witness ==
  /\ pc = "flip" /\ check /\ started = "flip" /\ sigat = "none"
  /\ statistics.flipped >= 1 /\ statistics.checked >= 1
  /\ times.check >= 1 /\ times.flip >= 1

\* C30: on every exit path of the process (satisfiable and unsatisfiable
\* completion, with or without '--check', 'exit (0)' after usage or version,
\* 'die', fatal error) the main oracle, the checker, the candidate, fixed and
\* constraint stores and the registration of the signal handler have been
\* released when the process ends.
C30_AllReleased ==
  (pc \in {"exit", "exited", "died", "abort"}) => alloc = {}

\* C31: under '--plain' no flip and no constraint is ever requested from the
\* oracle (the flip probe and the collection are never entered, the oracle
\* never holds a constraint), no fixed probe is made, the counters
\* 'filtered', 'flipped' and 'fixed' stay 0, the call for variable idx is
\* call number idx + 1 and carries the single assumption of the negated
\* literal of idx, with every variable below idx decided and every variable
\* from idx still a candidate; a completed run on a satisfiable formula ends
\* with calls.total = n + 1.
C31_PlainOneCallEach ==
  Plain =>
     /\ pc \notin {"flip", "collect", "constrained", "retry", "abort"}
     /\ ret # "constrained" /\ solver.constrained = <<>>
     /\ statistics.filtered = 0 /\ statistics.flipped = 0
     /\ statistics.fixed = 0
     /\ (pc = "solve" /\ ret = "assumed") =>
           /\ statistics.calls.total = idx
           /\ solver.assumptions = {-candidates[idx]}
           /\ \A v \in 1..vars : IsCandidate(v) <=> v >= idx
     /\ (pc = "exit" /\ res = SAT) =>
           /\ statistics.calls.total = vars + 1
           /\ statistics.calls.sat + statistics.calls.unsat = vars + 1

\* A completed plain run with a backbone and a dropped variable.
C31_Witness ==
  /\ Plain /\ pc = "exit" /\ res = SAT /\ vars >= 2
  /\ statistics.calls.total = vars + 1
  /\ statistics.backbones >= 1 /\ statistics.dropped >= 1

\* The first 'solve ()' has returned and 'main' has gone past the copy.
Copied == res \in {SAT, UNSAT}

\* C32: the checker is a copy of the main solver taken after the first
\* 'solve ()', when the main solver holds no assumption and no constraint;
\* before the copy it is empty and is not called; after it its formula is the
\* input formula for good (no clause added, no constraint), and each of its
\* calls is one assumed literal followed by 'solve ()', answered from the
\* input formula and that literal alone.
C32_CheckerIsolated ==
  /\ (pc = "solve" /\ ret = "after_first") => solver = Idle
  /\ pc = "after_first" =>
        (solver.assumptions = {} /\ solver.constrained = <<>>)
  /\ ~Copied => (checker.models = {} /\ checker.calls = {})
  /\ (Copied /\ checker.present) => checker.models = models
  /\ ~checker.present => checker.calls = {}
  /\ \A c \in checker.calls :
       /\ c.assume \in Lits
       /\ c.got = (IF \E m \in models : Holds(m, c.assume) THEN SAT ELSE UNSAT)

\* A checked run in which the main solver was given assumptions and a
\* constraint, and the checker was asked for a model and for a refutation.
C32_Witness ==
  /\ check /\ pc = "exit" /\ statistics.calls.total >= 3
  /\ Len(constraint) >= 2
  /\ \E c \in checker.calls : c.got = SAT
  /\ \E c \in checker.calls : c.got = UNSAT

\* C33: the constraint stack never overflows its capacity of n entries.
\* Its length never exceeds n; in the collection 'assumed' is the length of
\* the stack and at most the number of variables passed since 'idx', and it
\* is below n before each push, so neither 'assert (assumed < vars)' fails;
\* the stack is allocated whenever literals are collected.
C33_ConstraintFits ==
  /\ Len(constraint) <= vars
  /\ err = "none"
  /\ pc = "collect" =>
        /\ "constraint" \in alloc
        /\ assumed = Len(constraint) /\ assumed >= 1
        /\ assumed <= other - idx
        /\ (other <= vars /\ candidates[other] # 0) => assumed < vars

\* At the end of a collection that pushed every variable but one.
C33_Witness ==
  /\ pc = "collect" /\ other > vars /\ vars >= 3
  /\ assumed = vars - 1 /\ Len(constraint) = vars - 1

\* The signal found the flip probe between 'statistics.flipped++' and the
\* 'statistics.dropped++' of drop_candidate.
FlipCounted == sigat = "flip: flipped counted"

Retried ==
  /\ last = SAT /\ Len(constraint) >= 2
  /\ constraint[1] = -lit /\ candidates[idx] = lit

\* C35: constrain calls are never consecutive and the retry label is taken
\* at most once per variable.  'last' changes only when a call returns; a
\* constrain clause is collected and passed on only while 'last' is 20, and
\* a constrain call either returns SAT, which makes 'last' 10, or ends the
\* loop for good; so between two constrain calls there is an assumption
\* call that returned UNSAT.  The retry is reached only from a constrain
\* call that returned SAT; after it the variable gets no constrain clause
\* but is decided by the root-fixed probe or by a call under its single
\* assumption, and then 'idx' moves on.
C35_RetryOnce ==
  [][(sigat' = "none" /\ pc' # "abort") =>
       /\ last' # last => pc \in {"after_first", "assumed", "constrained"}
       /\ (pc' = "collect" \/ (pc' = "solve" /\ ret' = "constrained")) =>
             (pc \in {"try", "collect"} /\ last = UNSAT /\ ~one_by_one)
       /\ pc = "constrained" =>
             \/ /\ sres = SAT /\ last' = SAT /\ idx' = idx
                /\ pc' = "retry" \/ (pc' = "flip" /\ fret' = "retry")
             \/ sres = UNSAT /\ last' = UNSAT /\ pc' = "finish"
       /\ Phase = 0 => Phase' = 0
       /\ pc' = "retry" =>
             /\ last' = SAT /\ idx' = idx
             /\ pc = "constrained" \/ (pc = "flip" /\ fret = "retry")
       /\ (pc = "retry" /\ pc' = "try") =>
             /\ lit' = candidates[idx] /\ lit' # 0
             /\ Retried' /\ idx' = idx
       /\ (pc = "try" /\ Retried) =>
             \/ /\ pc' = "loop" /\ idx' = idx + 1 /\ ~no_fixed
                /\ fixed'[idx] = lit /\ candidates'[idx] = 0
             \/ /\ pc' = "solve" /\ ret' = "assumed" /\ idx' = idx
                /\ solver'.assumptions = {-lit}
                /\ solver'.constrained = <<>>
       /\ (pc = "assumed" /\ pc' # "assumed") =>
             /\ pc' \in {"advance", "flip"} /\ idx' = idx
             /\ pc' = "flip" => fret' = "advance"
             /\ candidates'[idx] = 0
       /\ pc = "advance" => idx' = idx + 1]_vars_all

\* The retried variable was put under its single assumption and the call
\* returned UNSAT: it is a backbone although the constrain call before had
\* a model.
C35_Witness ==
  /\ pc = "assumed" /\ sres = UNSAT /\ last = SAT
  /\ Len(constraint) >= 2 /\ constraint[1] = -lit /\ candidates[idx] = lit
  /\ statistics.calls.total >= 4

\* C36: after the initialisation candidates[v] is 0 or the literal of v in
\* the first model, and fixed[v] is 0 or that same literal.  The step after
\* the first call sets every candidates[v] to the literal of v in the model
\* just found and every fixed[v] to 0; every later step leaves candidates[v]
\* alone or sets it to 0, and leaves fixed[v] alone or moves the candidate
\* literal of v into it.  Hence one model of the formula, the first, agrees
\* with all candidate and backbone literals, and every printed backbone
\* literal is the entry of 'fixed' for its variable.
C36_FirstModelPolarity ==
  [][/\ (pc = "after_first" /\ sres = SAT /\ pc' \in {"flip", "loop"}) =>
          /\ solver.model \in models
          /\ \A v \in 1..vars : /\ candidates'[v] = Val(solver.model, v)
                                /\ fixed'[v] = 0
     /\ (pc # "after_first" /\ Live /\ Live') =>
          \A v \in 1..vars :
             /\ candidates'[v] \in {0, candidates[v]}
             /\ \/ fixed'[v] = fixed[v]
                \/ /\ fixed[v] = 0 /\ candidates[v] # 0
                   /\ fixed'[v] = candidates[v] /\ candidates'[v] = 0
     /\ (res = SAT /\ Live') =>
          /\ \E m \in models : \A v \in 1..vars :
                /\ candidates'[v] \in {0, Val(m, v)}
                /\ fixed'[v] \in {0, Val(m, v)}
          /\ \A l \in Printed' : fixed'[Abs(l)] = l]_vars_all

\* A later model gives a remaining candidate the other value, and the
\* candidate literal is kept as it was while a backbone has been found.
C36_Witness ==
  /\ Live /\ pc = "advance" /\ solver.state = "SAT"
  /\ \E v \in 1..vars : candidates[v] # 0 /\ ~Holds(solver.model, candidates[v])
  /\ \E w \in 1..vars : fixed[w] # 0

====
